---------------------------- MODULE Spec2Model ----------------------------
(***************************************************************************)
(* Block-list memory manager of src/app.py (class MemoryManager) driven by *)
(* the Streamlit form handlers of the same file.                           *)
(*                                                                         *)
(* Python strings are sequences of one-character strings; the optional     *)
(* process_id of a block is <<>> for None and <<s>> for the string s.      *)
(* List indices are the 0-based indices of the code (-1 = none), so the    *)
(* block at index i is mem[i + 1].                                         *)
(***************************************************************************)
EXTENDS Integers, Sequences, FiniteSets, TLC

\* ---------------------------------------------------------------- bounds
\* Capacity given to the constructor (1024 in the application).
TotalMemory == 5
\* Largest size typed into the "Process Size (KB)" input.
MaxSize == 3

\* ---------------------------------------------------------------- strings
StrP1 == <<"P", "1">>
StrSUCCESS == <<"S", "U", "C", "C", "E", "S", "S">>
StrEmpty == <<>>

\* Values typed into the "Process ID" text input.
ProcessIds == {StrEmpty, StrP1, StrSUCCESS}
\* Values of the "Process Size (KB)" number input.
Sizes == 0..MaxSize
\* Options of the "Allocation Algorithm" select box.
Algorithms == {"First-Fit", "Best-Fit", "Worst-Fit"}

None == <<>>
Some(s) == <<s>>

Digits == <<"0", "1", "2", "3", "4", "5", "6", "7", "8", "9">>

\* Decimal rendering of a non-negative integer, as an f-string renders it.
RECURSIVE Str(_)
Str(n) ==
    IF n < 10 THEN <<Digits[n + 1]>>
    ELSE Str(n \div 10) \o <<Digits[(n % 10) + 1]>>

\* True iff needle occurs in hay as a contiguous substring (Python "in").
Contains(hay, needle) ==
    \E k \in 0..(Len(hay) - Len(needle)) :
        \A j \in 1..Len(needle) : hay[k + j] = needle[j]

StartsWith(hay, prefix) ==
    /\ Len(hay) >= Len(prefix)
    /\ \A j \in 1..Len(prefix) : hay[j] = prefix[j]

StrFAIL == <<"F", "A", "I", "L">>

\* f"SUCCESS: Allocated Process {process_id} ({size}KB)."
MsgAllocated(process_id, size) ==
    StrSUCCESS
    \o <<":", " ", "A", "l", "l", "o", "c", "a", "t", "e", "d", " ",
         "P", "r", "o", "c", "e", "s", "s", " ">>
    \o process_id \o <<" ", "(">> \o Str(size) \o <<"K", "B", ")", ".">>

\* f"FAIL: Not enough memory for Process {process_id}."
MsgNotEnough(process_id) ==
    StrFAIL
    \o <<":", " ", "N", "o", "t", " ", "e", "n", "o", "u", "g", "h", " ",
         "m", "e", "m", "o", "r", "y", " ", "f", "o", "r", " ",
         "P", "r", "o", "c", "e", "s", "s", " ">>
    \o process_id \o <<".">>

\* f"SUCCESS: Deallocated Process {process_id}."
MsgDeallocated(process_id) ==
    StrSUCCESS
    \o <<":", " ", "D", "e", "a", "l", "l", "o", "c", "a", "t", "e", "d", " ",
         "P", "r", "o", "c", "e", "s", "s", " ">>
    \o process_id \o <<".">>

\* f"FAIL: Process {process_id} not found."
MsgNotFound(process_id) ==
    StrFAIL
    \o <<":", " ", "P", "r", "o", "c", "e", "s", "s", " ">>
    \o process_id
    \o <<" ", "n", "o", "t", " ", "f", "o", "u", "n", "d", ".">>

\* ---------------------------------------------------------------- blocks
Block(start, size, status, process_id) ==
    [start |-> start, size |-> size, status |-> status,
     process_id |-> process_id]

\* MemoryManager.__init__: one free block spanning the whole space.
__init__(total) ==
    [total_memory |-> total,
     memory |-> <<Block(0, total, "free", None)>>]

\* list.insert(index, x) for 0 <= index <= len(list)
ListInsert(mem, index, x) ==
    SubSeq(mem, 1, index) \o <<x>> \o SubSeq(mem, index + 1, Len(mem))

\* list.pop(index) for 0 <= index < len(list), the list that remains
ListPop(mem, index) ==
    SubSeq(mem, 1, index) \o SubSeq(mem, index + 2, Len(mem))

\* Insert b into a list sorted by start, after the entries with start <= its
\* own: building a list this way is a stable sort.
RECURSIVE InsertByStart(_, _)
InsertByStart(sorted, b) ==
    IF sorted = <<>> THEN <<b>>
    ELSE IF Head(sorted).start <= b.start
         THEN <<Head(sorted)>> \o InsertByStart(Tail(sorted), b)
         ELSE <<b>> \o sorted

\* self.memory.sort(key=lambda b: b['start'])  (stable)
RECURSIVE SortByStart(_)
SortByStart(mem) ==
    IF mem = <<>> THEN <<>>
    ELSE InsertByStart(SortByStart(SubSeq(mem, 1, Len(mem) - 1)),
                       mem[Len(mem)])

\* The while loop of _merge_free_blocks from position i on.
RECURSIVE MergeLoop(_, _)
MergeLoop(mem, i) ==
    IF i < Len(mem) - 1
    THEN LET current == mem[i + 1]
             next_block == mem[i + 2]
         IN  IF current.status = "free" /\ next_block.status = "free"
             THEN MergeLoop(
                    ListPop([mem EXCEPT ![i + 1].size =
                                 current.size + next_block.size], i + 1),
                    i)
             ELSE MergeLoop(mem, i + 1)
    ELSE mem

\* Variant of _merge_free_blocks without the sort of its first line.
_merge_free_blocks_no_sort(mem) ==
    MergeLoop(mem, 0)

\* Variant of the sweep that advances after a merge instead of comparing the
\* merged block with its new right neighbour.
RECURSIVE MergeLoopAdvance(_, _)
MergeLoopAdvance(mem, i) ==
    IF i < Len(mem) - 1
    THEN LET current == mem[i + 1]
             next_block == mem[i + 2]
         IN  IF current.status = "free" /\ next_block.status = "free"
             THEN MergeLoopAdvance(
                    ListPop([mem EXCEPT ![i + 1].size =
                                 current.size + next_block.size], i + 1),
                    i + 1)
             ELSE MergeLoopAdvance(mem, i + 1)
    ELSE mem

_merge_free_blocks_advance(mem) ==
    MergeLoopAdvance(SortByStart(mem), 0)

_merge_free_blocks(mem) ==
    MergeLoop(SortByStart(mem), 0)

\* Variant of _split_block that leaves the selected block's size as it was.
_split_block_no_resize(mem, block_index, process_id, size) ==
    LET block == mem[block_index + 1]
        new_free_block == Block(block.start + size, block.size - size,
                                "free", None)
        mem1 == IF block.size > size
                THEN ListInsert(mem, block_index + 1, new_free_block)
                ELSE mem
    IN  [memory |-> [mem1 EXCEPT ![block_index + 1] =
                        Block(block.start, block.size, "used",
                              Some(process_id))],
         message |-> MsgAllocated(process_id, size)]

\* Variant of _split_block that inserts the remainder before the selected
\* block instead of after it.
_split_block_insert_before(mem, block_index, process_id, size) ==
    LET block == mem[block_index + 1]
        new_free_block == Block(block.start + size, block.size - size,
                                "free", None)
        used == Block(block.start, size, "used", Some(process_id))
        mem1 == [mem EXCEPT ![block_index + 1] = used]
    IN  [memory |-> IF block.size > size
                    THEN ListInsert(mem1, block_index, new_free_block)
                    ELSE mem1,
         message |-> MsgAllocated(process_id, size)]

_split_block(mem, block_index, process_id, size) ==
    LET block == mem[block_index + 1]
        new_free_block == Block(block.start + size, block.size - size,
                                "free", None)
        mem1 == IF block.size > size
                THEN ListInsert(mem, block_index + 1, new_free_block)
                ELSE mem
    IN  [memory |-> [mem1 EXCEPT ![block_index + 1] =
                        Block(block.start, size, "used", Some(process_id))],
         message |-> MsgAllocated(process_id, size)]

\* Variant of the scans' test that rejects an exact fit.
QualifiesStrict(block, size) ==
    block.status = "free" /\ block.size > size

\* The block a scan accepts: free and large enough.
Qualifies(block, size) ==
    block.status = "free" /\ block.size >= size

\* Variant of the first_fit loop that does not stop at the first match.
RECURSIVE FirstFitScanLast(_, _, _)
FirstFitScanLast(mem, size, i) ==
    IF i >= Len(mem) THEN -1
    ELSE LET rest == FirstFitScanLast(mem, size, i + 1)
         IN  IF rest # -1 THEN rest
             ELSE IF Qualifies(mem[i + 1], size) THEN i ELSE -1

\* The for loop of first_fit from index i on: the index it splits, or -1.
RECURSIVE FirstFitScan(_, _, _)
FirstFitScan(mem, size, i) ==
    IF i >= Len(mem) THEN -1
    ELSE IF Qualifies(mem[i + 1], size) THEN i
         ELSE FirstFitScan(mem, size, i + 1)

first_fit(mem, process_id, size) ==
    LET i == FirstFitScan(mem, size, 0)
    IN  IF i # -1
        THEN _split_block(mem, i, process_id, size)
        ELSE [memory |-> mem, message |-> MsgNotEnough(process_id)]

\* float('inf') and the integers it is compared with.
Inf == [inf |-> TRUE, val |-> 0]
Fin(n) == [inf |-> FALSE, val |-> n]
LessThan(n, e) == e.inf \/ n < e.val

\* Variant of the best_fit loop comparing with <= : the last of several
\* tightest blocks wins.
RECURSIVE BestFitScanLastTie(_, _, _, _, _)
BestFitScanLastTie(mem, size, i, best_block_index, min_fragmentation) ==
    IF i >= Len(mem) THEN best_block_index
    ELSE LET block == mem[i + 1]
             fragmentation == block.size - size
         IN  IF Qualifies(block, size)
                /\ (LessThan(fragmentation, min_fragmentation)
                    \/ Fin(fragmentation) = min_fragmentation)
             THEN BestFitScanLastTie(mem, size, i + 1, i, Fin(fragmentation))
             ELSE BestFitScanLastTie(mem, size, i + 1, best_block_index,
                                     min_fragmentation)

\* The for loop of best_fit from index i on, with the loop's two variables.
RECURSIVE BestFitScan(_, _, _, _, _)
BestFitScan(mem, size, i, best_block_index, min_fragmentation) ==
    IF i >= Len(mem) THEN best_block_index
    ELSE LET block == mem[i + 1]
             fragmentation == block.size - size
         IN  IF Qualifies(block, size)
                /\ LessThan(fragmentation, min_fragmentation)
             THEN BestFitScan(mem, size, i + 1, i, Fin(fragmentation))
             ELSE BestFitScan(mem, size, i + 1, best_block_index,
                              min_fragmentation)

best_fit(mem, process_id, size) ==
    LET best_block_index == BestFitScan(mem, size, 0, -1, Inf)
    IN  IF best_block_index # -1
        THEN _split_block(mem, best_block_index, process_id, size)
        ELSE [memory |-> mem, message |-> MsgNotEnough(process_id)]

\* Variant of the worst_fit loop comparing with >= : the last of several
\* largest blocks wins.
RECURSIVE WorstFitScanLastTie(_, _, _, _, _)
WorstFitScanLastTie(mem, size, i, worst_block_index, max_fragmentation) ==
    IF i >= Len(mem) THEN worst_block_index
    ELSE LET block == mem[i + 1]
             fragmentation == block.size - size
         IN  IF Qualifies(block, size) /\ fragmentation >= max_fragmentation
             THEN WorstFitScanLastTie(mem, size, i + 1, i, fragmentation)
             ELSE WorstFitScanLastTie(mem, size, i + 1, worst_block_index,
                                      max_fragmentation)

\* The for loop of worst_fit from index i on, with the loop's two variables.
RECURSIVE WorstFitScan(_, _, _, _, _)
WorstFitScan(mem, size, i, worst_block_index, max_fragmentation) ==
    IF i >= Len(mem) THEN worst_block_index
    ELSE LET block == mem[i + 1]
             fragmentation == block.size - size
         IN  IF Qualifies(block, size) /\ fragmentation > max_fragmentation
             THEN WorstFitScan(mem, size, i + 1, i, fragmentation)
             ELSE WorstFitScan(mem, size, i + 1, worst_block_index,
                               max_fragmentation)

worst_fit(mem, process_id, size) ==
    LET worst_block_index == WorstFitScan(mem, size, 0, -1, -1)
    IN  IF worst_block_index # -1
        THEN _split_block(mem, worst_block_index, process_id, size)
        ELSE [memory |-> mem, message |-> MsgNotEnough(process_id)]

\* Variant of the deallocate loop that does not compare the process_id: the
\* first used block matches.
RECURSIVE DeallocateScanAnyOwner(_, _, _)
DeallocateScanAnyOwner(mem, process_id, i) ==
    IF i >= Len(mem) THEN -1
    ELSE IF mem[i + 1].status = "used" THEN i
         ELSE DeallocateScanAnyOwner(mem, process_id, i + 1)

\* Variant of the deallocate loop that does not return at the first match: the
\* last matching block is freed.
RECURSIVE DeallocateScanLast(_, _, _)
DeallocateScanLast(mem, process_id, i) ==
    IF i >= Len(mem) THEN -1
    ELSE LET rest == DeallocateScanLast(mem, process_id, i + 1)
         IN  IF rest # -1 THEN rest
             ELSE IF mem[i + 1].status = "used"
                     /\ mem[i + 1].process_id = Some(process_id)
                  THEN i ELSE -1

\* The for loop of deallocate from index i on: the index it frees, or -1.
RECURSIVE DeallocateScan(_, _, _)
DeallocateScan(mem, process_id, i) ==
    IF i >= Len(mem) THEN -1
    ELSE IF mem[i + 1].status = "used"
            /\ mem[i + 1].process_id = Some(process_id)
         THEN i
         ELSE DeallocateScan(mem, process_id, i + 1)

\* Variant of deallocate that leaves the freed block's process_id in place.
deallocate_keep_owner(mem, process_id) ==
    LET i == DeallocateScan(mem, process_id, 0)
    IN  IF i # -1
        THEN [memory |-> _merge_free_blocks(
                            [mem EXCEPT ![i + 1].status = "free"]),
              message |-> MsgDeallocated(process_id)]
        ELSE [memory |-> mem, message |-> MsgNotFound(process_id)]

\* Variant of deallocate that does not run the coalescing pass.
deallocate_no_merge(mem, process_id) ==
    LET i == DeallocateScan(mem, process_id, 0)
    IN  IF i # -1
        THEN [memory |-> [mem EXCEPT ![i + 1].status = "free",
                                     ![i + 1].process_id = None],
              message |-> MsgDeallocated(process_id)]
        ELSE [memory |-> mem, message |-> MsgNotFound(process_id)]

deallocate(mem, process_id) ==
    LET i == DeallocateScan(mem, process_id, 0)
    IN  IF i # -1
        THEN [memory |-> _merge_free_blocks(
                            [mem EXCEPT ![i + 1].status = "free",
                                        ![i + 1].process_id = None]),
              message |-> MsgDeallocated(process_id)]
        ELSE [memory |-> mem, message |-> MsgNotFound(process_id)]

RECURSIVE SumSizes(_)
SumSizes(blocks) ==
    IF blocks = <<>> THEN 0 ELSE Head(blocks).size + SumSizes(Tail(blocks))

RECURSIVE MaxSizes(_)
MaxSizes(blocks) ==
    IF Len(blocks) = 1 THEN Head(blocks).size
    ELSE LET m == MaxSizes(Tail(blocks))
         IN  IF Head(blocks).size >= m THEN Head(blocks).size ELSE m

IsFree(b) == b.status = "free"

\* Variant of get_fragmentation that subtracts nothing: the total free memory.
get_fragmentation_total(mem) ==
    LET free_blocks == SelectSeq(mem, IsFree)
    IN  IF Len(free_blocks) <= 1 THEN 0
        ELSE SumSizes(free_blocks)

get_fragmentation(mem) ==
    LET free_blocks == SelectSeq(mem, IsFree)
    IN  IF Len(free_blocks) <= 1 THEN 0
        ELSE SumSizes(free_blocks) - MaxSizes(free_blocks)

\* algo_map[algorithm](process_id, process_size)
algo_map(algorithm, mem, process_id, size) ==
    CASE algorithm = "First-Fit" -> first_fit(mem, process_id, size)
      [] algorithm = "Best-Fit" -> best_fit(mem, process_id, size)
      [] algorithm = "Worst-Fit" -> worst_fit(mem, process_id, size)

\* ---------------------------------------------------------------- state
VARIABLES
    memory,         \* mm.memory, the block list
    total_memory,   \* mm.total_memory
    fragmentation,  \* the "External Fragmentation" metric of the last run
    last,           \* the last handler run: its inputs, message and display
    pre             \* mm.memory as it was when the last handler run began

vars == <<memory, total_memory, fragmentation, last, pre>>

NoRun == [op |-> "none", process_id |-> StrEmpty, size |-> 0,
          algorithm |-> "none", message |-> <<>>, shown |-> "none"]

Init ==
    /\ memory = __init__(TotalMemory).memory
    /\ total_memory = __init__(TotalMemory).total_memory
    /\ fragmentation = get_fragmentation(__init__(TotalMemory).memory)
    /\ last = NoRun
    /\ pre = __init__(TotalMemory).memory

\* "Allocate" pressed with a rejected form: st.error, manager not called.
AllocateRejected(process_id, process_size) ==
    /\ process_id = StrEmpty \/ process_size <= 0
    /\ last' = [op |-> "allocate_rejected", process_id |-> process_id,
                size |-> process_size, algorithm |-> "none",
                message |-> <<>>, shown |-> "error"]
    /\ pre' = memory
    /\ fragmentation' = get_fragmentation(memory)
    /\ UNCHANGED <<memory, total_memory>>

\* Variant of the handler without the form check of its first branch.
AllocateUnguarded(process_id, process_size, algorithm) ==
    /\ LET r == algo_map(algorithm, memory, process_id, process_size)
       IN  /\ memory' = r.memory
           /\ last' = [op |-> "allocate", process_id |-> process_id,
                       size |-> process_size, algorithm |-> algorithm,
                       message |-> r.message,
                       shown |-> IF Contains(r.message, StrSUCCESS)
                                 THEN "success" ELSE "error"]
           /\ fragmentation' = get_fragmentation(r.memory)
    /\ pre' = memory
    /\ UNCHANGED total_memory

\* "Allocate" pressed with an accepted form.
Allocate(process_id, process_size, algorithm) ==
    /\ ~(process_id = StrEmpty \/ process_size <= 0)
    /\ LET r == algo_map(algorithm, memory, process_id, process_size)
       IN  /\ memory' = r.memory
           /\ last' = [op |-> "allocate", process_id |-> process_id,
                       size |-> process_size, algorithm |-> algorithm,
                       message |-> r.message,
                       shown |-> IF Contains(r.message, StrSUCCESS)
                                 THEN "success" ELSE "error"]
           /\ fragmentation' = get_fragmentation(r.memory)
    /\ pre' = memory
    /\ UNCHANGED total_memory

\* "Deallocate" pressed with an empty Process ID: st.error.
DeallocateRejected(process_id) ==
    /\ process_id = StrEmpty
    /\ last' = [op |-> "deallocate_rejected", process_id |-> process_id,
                size |-> 0, algorithm |-> "none",
                message |-> <<>>, shown |-> "error"]
    /\ pre' = memory
    /\ fragmentation' = get_fragmentation(memory)
    /\ UNCHANGED <<memory, total_memory>>

\* "Deallocate" pressed with a Process ID.
Deallocate(process_id) ==
    /\ process_id # StrEmpty
    /\ LET r == deallocate(memory, process_id)
       IN  /\ memory' = r.memory
           /\ last' = [op |-> "deallocate", process_id |-> process_id,
                       size |-> 0, algorithm |-> "none",
                       message |-> r.message,
                       shown |-> IF Contains(r.message, StrSUCCESS)
                                 THEN "info" ELSE "warning"]
           /\ fragmentation' = get_fragmentation(r.memory)
    /\ pre' = memory
    /\ UNCHANGED total_memory

\* "Reset Simulation" pressed: a fresh manager replaces the old one.
Reset ==
    /\ memory' = __init__(TotalMemory).memory
    /\ total_memory' = __init__(TotalMemory).total_memory
    /\ fragmentation' = get_fragmentation(__init__(TotalMemory).memory)
    /\ last' = [NoRun EXCEPT !.op = "reset", !.shown = "success"]
    /\ pre' = memory

Next ==
    \/ \E p \in ProcessIds, s \in Sizes : AllocateRejected(p, s)
    \/ \E p \in ProcessIds, s \in Sizes, a \in Algorithms : Allocate(p, s, a)
    \/ \E p \in ProcessIds : DeallocateRejected(p)
    \/ \E p \in ProcessIds : Deallocate(p)
    \/ Reset

Spec == Init /\ [][Next]_vars

\* ------------------------------------------------- _merge_free_blocks alone
\* Longest block list handed to _merge_free_blocks.
MaxBlocks == 3

\* Blocks of the lists handed to _merge_free_blocks: any start, free or used.
MergeSizes == {1, 2}
MergeBlocks ==
    {Block(s, z, "free", None) : s \in 0..MaxBlocks, z \in MergeSizes}
    \cup {Block(s, z, "used", Some(StrP1)) :
             s \in 0..MaxBlocks, z \in MergeSizes}
BlockLists == UNION {[1..n -> MergeBlocks] : n \in 0..MaxBlocks}

InitMerge ==
    /\ memory \in BlockLists
    /\ total_memory = SumSizes(memory)
    /\ fragmentation = get_fragmentation(memory)
    /\ last = NoRun
    /\ pre = memory

\* One call of self._merge_free_blocks() on the list.
MergeRun ==
    /\ memory' = _merge_free_blocks(memory)
    /\ last' = [NoRun EXCEPT !.op = "_merge_free_blocks"]
    /\ pre' = memory
    /\ fragmentation' = get_fragmentation(_merge_free_blocks(memory))
    /\ UNCHANGED total_memory

NextMerge == MergeRun

SpecMerge == InitMerge /\ [][NextMerge]_vars

\* ------------------------------------------------- the application's capacity
\* MemoryManager(total_memory=1024)
Capacity == 1024

StrP2 == <<"P", "2">>
\* Process IDs and sizes typed in a session on the full-size manager.
ScenarioIds == {StrP1, StrP2}
ScenarioSizes == {200, 300}

InitScenario ==
    /\ memory = __init__(Capacity).memory
    /\ total_memory = __init__(Capacity).total_memory
    /\ fragmentation = get_fragmentation(__init__(Capacity).memory)
    /\ last = NoRun
    /\ pre = __init__(Capacity).memory

NextScenario ==
    \/ \E p \in ScenarioIds, s \in ScenarioSizes :
          Allocate(p, s, "First-Fit")
    \/ \E p \in ScenarioIds : Deallocate(p)

SpecScenario == InitScenario /\ [][NextScenario]_vars

\* ---------------------------------------------------------------- properties
\* What the manager's call of the last run returned.
AllocSucceeded ==
    last.op = "allocate" /\ StartsWith(last.message, StrSUCCESS)
AllocFailed ==
    last.op = "allocate" /\ StartsWith(last.message, StrFAIL)
DeallocSucceeded ==
    last.op = "deallocate" /\ StartsWith(last.message, StrSUCCESS)

UsedBy(mem, process_id) ==
    {i \in 1..Len(mem) :
        mem[i].status = "used" /\ mem[i].process_id = Some(process_id)}

\* Indices (1-based) of the blocks of pre the last request could be served from.
Candidates ==
    {i \in 1..Len(pre) : pre[i].status = "free" /\ pre[i].size >= last.size}

\* The block of pre the last successful allocation was made in: the first
\* position at which the list changed.
Changed == {i \in 1..Len(pre) : memory[i] # pre[i]}
Selected == CHOOSE i \in Changed : \A j \in Changed : i <= j

\* The new used block sits where the candidate block k of pre was.
AllocatedAt(k) ==
    /\ Changed # {}
    /\ Selected = k
    /\ memory[k] = Block(pre[k].start, last.size, "used",
                         Some(last.process_id))

\* C1: the block list is ordered by ascending start, begins at 0, each block
\* ends where the next begins, every block has size >= 1, and the last block
\* ends at total_memory, so the sizes sum to total_memory.
C1_Contiguous ==
    /\ Len(memory) >= 1
    /\ memory[1].start = 0
    /\ \A i \in 1..(Len(memory) - 1) :
          /\ memory[i].start < memory[i + 1].start
          /\ memory[i].start + memory[i].size = memory[i + 1].start
    /\ \A i \in 1..Len(memory) : memory[i].size >= 1
    /\ memory[Len(memory)].start + memory[Len(memory)].size = total_memory
    /\ SumSizes(memory) = total_memory

\* C1 witness: an allocation has split a block of a list that had already been
\* split and merged into at least three blocks.
C1_Witness ==
    /\ AllocSucceeded
    /\ Len(pre) >= 3
    /\ Len(memory) = Len(pre) + 1
    /\ \E i \in 1..Len(pre) : pre[i].status = "free"

\* C2: no two adjacent blocks of the list are both free.
C2_NoAdjacentFree ==
    \A i \in 1..(Len(memory) - 1) :
        ~(memory[i].status = "free" /\ memory[i + 1].status = "free")

\* C2 witness: a deallocation freed a block between two free blocks and the
\* three were merged into one.
C2_Witness ==
    /\ DeallocSucceeded
    /\ Len(memory) = Len(pre) - 2
    /\ Len(memory) >= 2

\* C3: at most one used block carries any given process_id.
C3_UniqueOwner ==
    \A i, j \in 1..Len(memory) :
        (/\ memory[i].status = "used"
         /\ memory[j].status = "used"
         /\ memory[i].process_id = memory[j].process_id) => i = j

\* C4: after a successful deallocate(process_id) no block of the list carries
\* that process_id.
C4_OwnerGone ==
    DeallocSucceeded =>
        \A i \in 1..Len(memory) :
            memory[i].process_id # Some(last.process_id)

\* C5: a successful allocate followed immediately by deallocate of the same
\* owner yields the block list that preceded the allocate.
C5_RoundTrip ==
    [][(/\ AllocSucceeded
        /\ last'.op = "deallocate"
        /\ last'.process_id = last.process_id) => memory' = pre]_vars

\* C6: first_fit allocates in the qualifying free block with the lowest start
\* address: the new used block starts there and no qualifying free block lay
\* at a lower address.
C6_FirstFitLowest ==
    (AllocSucceeded /\ last.algorithm = "First-Fit") =>
        \E k \in Candidates :
            /\ \A j \in Candidates : pre[k].start <= pre[j].start
            /\ AllocatedAt(k)

\* C6 witness: first_fit served a request from the lowest qualifying block
\* although a tighter qualifying block lay at a higher address.
C6_Witness ==
    /\ AllocSucceeded
    /\ last.algorithm = "First-Fit"
    /\ Cardinality(Candidates) >= 2
    /\ \E j \in Candidates : j > Selected /\ pre[j].size < pre[Selected].size

\* C7: best_fit allocates in a qualifying free block of minimum size, the one
\* with the lowest start address among several of that size.
C7_BestFitTightest ==
    (AllocSucceeded /\ last.algorithm = "Best-Fit") =>
        \E k \in Candidates :
            /\ \A j \in Candidates : pre[k].size <= pre[j].size
            /\ \A j \in Candidates :
                  pre[j].size = pre[k].size => pre[k].start <= pre[j].start
            /\ AllocatedAt(k)

\* C7 witness: best_fit chose between two tightest blocks of equal size that
\* leave a remainder.
C7_Witness ==
    /\ AllocSucceeded
    /\ last.algorithm = "Best-Fit"
    /\ \E j \in Candidates : j > Selected /\ pre[j].size = pre[Selected].size
    /\ pre[Selected].size > last.size

\* C8: worst_fit allocates in a qualifying free block of maximum size, the one
\* with the lowest start address among several of that size.
C8_WorstFitLargest ==
    (AllocSucceeded /\ last.algorithm = "Worst-Fit") =>
        \E k \in Candidates :
            /\ \A j \in Candidates : pre[k].size >= pre[j].size
            /\ \A j \in Candidates :
                  pre[j].size = pre[k].size => pre[k].start <= pre[j].start
            /\ AllocatedAt(k)

\* C8 witness: worst_fit chose between two largest blocks of equal size.
C8_Witness ==
    /\ AllocSucceeded
    /\ last.algorithm = "Worst-Fit"
    /\ \E j \in Candidates : j > Selected /\ pre[j].size = pre[Selected].size

\* C9: a successful allocate of size S in the selected free block (start A,
\* size B) leaves the used block (A, S, owner) in its place; if B > S one free
\* block (A + S, B - S) is inserted immediately after and the count grows by
\* one; if B = S the count is unchanged; nothing else in the list changes.
C9_SplitShape ==
    AllocSucceeded =>
        \E k \in Candidates :
            LET A == pre[k].start
                B == pre[k].size
                S == last.size
                used == Block(A, S, "used", Some(last.process_id))
                rest == Block(A + S, B - S, "free", None)
            IN  /\ B > S =>
                     /\ Len(memory) = Len(pre) + 1
                     /\ memory = SubSeq(pre, 1, k - 1) \o <<used, rest>>
                                    \o SubSeq(pre, k + 1, Len(pre))
                /\ B = S =>
                     /\ Len(memory) = Len(pre)
                     /\ memory = [pre EXCEPT ![k] = used]
                /\ Len(memory) <= Len(pre) + 1

\* C9 witness: an exact-fit allocation in a block that is not the last of the
\* list (no remainder was inserted).
C9_Witness ==
    /\ AllocSucceeded
    /\ Len(memory) = Len(pre)
    /\ Selected < Len(pre)

\* C10: an allocate call (any strategy) returns a failure exactly when no free
\* block has size >= the requested size, whatever the total free memory, and
\* on failure the block list is unchanged.
C10_FailIffNoFit ==
    last.op = "allocate" =>
        /\ AllocFailed <=> (Candidates = {})
        /\ AllocSucceeded <=> ~AllocFailed
        /\ AllocFailed => memory = pre

\* C10 witness: a First-Fit, Best-Fit or Worst-Fit request failed although the
\* free blocks together hold at least the requested size.
C10_Witness ==
    /\ AllocFailed
    /\ SumSizes(SelectSeq(pre, IsFree)) >= last.size
    /\ memory = pre

DeallocFailed ==
    last.op = "deallocate" /\ StartsWith(last.message, StrFAIL)

\* C11: deallocate returns a failure exactly when no used block carries the
\* process_id, and on failure the block list is unchanged.
C11_DeallocFailIffUnknown ==
    last.op = "deallocate" =>
        /\ DeallocFailed <=> (UsedBy(pre, last.process_id) = {})
        /\ DeallocSucceeded <=> ~DeallocFailed
        /\ DeallocFailed => memory = pre

\* C11 witness: deallocate failed for a process_id that carries no block
\* while the list holds a used block of another owner and two free blocks.
C11_Witness ==
    /\ DeallocFailed
    /\ memory = pre
    /\ \E i \in 1..Len(pre) : pre[i].status = "used"
    /\ Len(SelectSeq(pre, IsFree)) >= 2

\* Sizes of the free blocks of the list, by position.
FreeIndices == {i \in 1..Len(memory) : memory[i].status = "free"}
RECURSIVE SumOver(_)
SumOver(S) ==
    IF S = {} THEN 0
    ELSE LET i == CHOOSE i \in S : TRUE
         IN  memory[i].size + SumOver(S \ {i})
LargestFree ==
    CHOOSE m \in {memory[i].size : i \in FreeIndices} :
        \A i \in FreeIndices : memory[i].size <= m

\* C12: get_fragmentation() is 0 with zero or one free block and otherwise the
\* sum of the free sizes minus the largest free size; a run that only queries
\* the metric leaves the block list unchanged.
C12_Fragmentation ==
    /\ Cardinality(FreeIndices) <= 1 => fragmentation = 0
    /\ Cardinality(FreeIndices) >= 2 =>
          fragmentation = SumOver(FreeIndices) - LargestFree
    /\ last.op \in {"allocate_rejected", "deallocate_rejected"} =>
          memory = pre

\* C12 witness: three free blocks and a non-zero metric.
C12_Witness ==
    /\ Cardinality(FreeIndices) >= 3
    /\ fragmentation > 0

\* C13: every used block has a non-empty process_id and every free block has
\* process_id None.
C13_OwnerMatchesStatus ==
    \A i \in 1..Len(memory) :
        /\ memory[i].status = "used" =>
              /\ memory[i].process_id # None
              /\ memory[i].process_id # Some(StrEmpty)
        /\ memory[i].status = "free" => memory[i].process_id = None

\* C13 witness: a block was freed and merged while another block stays used.
C13_Witness ==
    /\ DeallocSucceeded
    /\ Len(memory) < Len(pre)
    /\ \E i \in 1..Len(memory) : memory[i].status = "used"

\* C16: the caller shows a success (st.success after allocate, st.info after
\* deallocate) exactly when the operation changed the block list, whatever
\* the process_id string is.
C16_ShownMatchesOutcome ==
    /\ last.op = "allocate" => (last.shown = "success" <=> memory # pre)
    /\ last.op = "deallocate" => (last.shown = "info" <=> memory # pre)

\* C17: an allocate request with an empty process_id or a size <= 0, and a
\* deallocate request with an empty process_id, never reaches the manager
\* (no message is produced, an error is shown) and leaves the list unchanged.
C17_RejectedBeforeScan ==
    /\ (\/ last.process_id = StrEmpty
        \/ (last.op \in {"allocate", "allocate_rejected"} /\ last.size <= 0))
       /\ last.op \in {"allocate", "allocate_rejected",
                       "deallocate", "deallocate_rejected"}
       => /\ last.op \in {"allocate_rejected", "deallocate_rejected"}
          /\ last.message = <<>>
          /\ last.shown = "error"
          /\ memory = pre
    /\ \A i \in 1..Len(memory) : memory[i].size >= 1

\* C17 witness: a request of size 0 under a non-empty process_id was rejected
\* while the list held a free block that a scan would have accepted.
C17_Witness ==
    /\ last.op = "allocate_rejected"
    /\ last.process_id # StrEmpty
    /\ last.size <= 0
    /\ memory = pre
    /\ Len(memory) >= 2
    /\ \E i \in 1..Len(memory) : memory[i].status = "free"

IsUsed(b) == b.status = "used"
UsedBlocks(mem) == {mem[i] : i \in {j \in 1..Len(mem) : IsUsed(mem[j])}}
\* The lowest-address used block of mem carrying the process_id.
FirstUsedBy(mem, process_id) ==
    mem[CHOOSE i \in UsedBy(mem, process_id) :
            \A j \in UsedBy(mem, process_id) : mem[i].start <= mem[j].start]

\* C19: every used block keeps start, size and process_id across every
\* allocate call and every deallocate call for another process_id; a
\* successful deallocate frees exactly one used block, the lowest-address one
\* carrying the process_id, and a failed one frees none.
C19_UsedBlocksStable ==
    /\ last.op = "allocate" => UsedBlocks(pre) \subseteq UsedBlocks(memory)
    /\ DeallocSucceeded =>
          /\ UsedBlocks(memory) \subseteq UsedBlocks(pre)
          /\ UsedBlocks(pre) \ UsedBlocks(memory)
                = {FirstUsedBy(pre, last.process_id)}
    /\ DeallocFailed => UsedBlocks(memory) = UsedBlocks(pre)

\* C19 witness: a deallocate freed the lower of two blocks of one owner while
\* a block of another owner stayed in place.
C19_Witness ==
    /\ DeallocSucceeded
    /\ Cardinality(UsedBy(pre, last.process_id)) >= 2
    /\ \E b \in UsedBlocks(memory) : b.process_id # Some(last.process_id)
    /\ \E b \in UsedBlocks(memory) : b.process_id = Some(last.process_id)

\* C20: a state without any used block is the single free block
\* (0, total_memory, None), and its fragmentation is 0.
C20_FullRecovery ==
    (\A i \in 1..Len(memory) : memory[i].status # "used") =>
        /\ memory = <<Block(0, total_memory, "free", None)>>
        /\ get_fragmentation(memory) = 0
        /\ fragmentation = 0

\* C20 witness: the last used block was freed between two free blocks.
C20_Witness ==
    /\ DeallocSucceeded
    /\ Len(pre) >= 3
    /\ \A i \in 1..Len(memory) : memory[i].status # "used"

Merged == last.op = "_merge_free_blocks"

\* C14: running _merge_free_blocks on the result of a run of
\* _merge_free_blocks changes nothing, for every block list.
C14_MergeIdempotent ==
    Merged => _merge_free_blocks(memory) = memory

\* C14 witness: the first run merged a run of three free blocks of a list
\* that was not sorted by start.
C14_Witness ==
    /\ Merged
    /\ Len(pre) = 3
    /\ Len(memory) = 1
    /\ \E i \in 1..2 : pre[i].start > pre[i + 1].start

\* The list is contiguous once sorted by start: starts differ, ends differ,
\* and every block but the highest ends where another begins.
IsChain(mem) ==
    /\ \A i, j \in 1..Len(mem) :
          i # j => /\ mem[i].start # mem[j].start
                   /\ mem[i].start + mem[i].size # mem[j].start + mem[j].size
    /\ \A i \in 1..Len(mem) :
          \/ \E j \in 1..Len(mem) : mem[j].start = mem[i].start + mem[i].size
          \/ \A j \in 1..Len(mem) : mem[j].start <= mem[i].start

\* Free blocks of mem that begin inside the block b.
FreeWithin(mem, b) ==
    {i \in 1..Len(mem) :
        /\ mem[i].status = "free"
        /\ b.start <= mem[i].start
        /\ mem[i].start < b.start + b.size}
RECURSIVE SumPre(_)
SumPre(S) ==
    IF S = {} THEN 0
    ELSE LET i == CHOOSE i \in S : TRUE
         IN  pre[i].size + SumPre(S \ {i})

\* C18: one run of _merge_free_blocks on a list that is contiguous when
\* sorted by start yields a list sorted by start, without adjacent free
\* blocks, where every maximal run of free blocks has become one free block
\* with the start of the run's first block and the sum of the run's sizes,
\* and where every used block is kept as it was.
C18_MergeOnePass ==
    (Merged /\ IsChain(pre)) =>
        /\ \A i \in 1..(Len(memory) - 1) :
              /\ memory[i].start < memory[i + 1].start
              /\ memory[i].start + memory[i].size = memory[i + 1].start
              /\ ~(memory[i].status = "free"
                   /\ memory[i + 1].status = "free")
        /\ UsedBlocks(memory) = UsedBlocks(pre)
        /\ Len(SelectSeq(memory, IsUsed)) = Len(SelectSeq(pre, IsUsed))
        /\ \A i \in 1..Len(memory) :
              memory[i].status = "free" =>
                 /\ memory[i].process_id = None
                 /\ \E j \in FreeWithin(pre, memory[i]) :
                       pre[j].start = memory[i].start
                 /\ SumPre(FreeWithin(pre, memory[i])) = memory[i].size
                 /\ \A j \in 1..Len(pre) :
                       pre[j].status = "used" =>
                          \/ pre[j].start < memory[i].start
                          \/ pre[j].start >= memory[i].start + memory[i].size
        /\ (pre = <<>>) <=> (memory = <<>>)

\* C18 witness: an unsorted contiguous list of a used block and a run of two
\* free blocks was merged.
C18_Witness ==
    /\ Merged
    /\ IsChain(pre)
    /\ Len(pre) = 3
    /\ Len(memory) = 2
    /\ pre[1].start > pre[2].start
    /\ \E i \in 1..2 : memory[i].status = "used"

\* The block lists of the end-to-end scenario.
Scenario0 == <<Block(0, 1024, "free", None)>>
Scenario1 ==
    <<Block(0, 300, "used", Some(StrP1)), Block(300, 724, "free", None)>>
Scenario2 ==
    <<Block(0, 300, "used", Some(StrP1)),
      Block(300, 200, "used", Some(StrP2)),
      Block(500, 524, "free", None)>>
Scenario3 ==
    <<Block(0, 300, "free", None),
      Block(300, 200, "used", Some(StrP2)),
      Block(500, 524, "free", None)>>

FirstFitOf(process_id, size) ==
    /\ last.op = "allocate"
    /\ last.algorithm = "First-Fit"
    /\ last.process_id = process_id
    /\ last.size = size
DeallocateOf(process_id) ==
    last.op = "deallocate" /\ last.process_id = process_id

\* C15: with capacity 1024 and First-Fit, allocate P1=300 on the fresh list
\* gives Used(0,300), Free(300,724); allocate P2=200 then gives Used(0,300),
\* Used(300,200), Free(500,524); deallocate P1 then gives Free(0,300),
\* Used(300,200), Free(500,524) without a merge; deallocate P2 then gives the
\* single block Free(0,1024).
C15_Scenario ==
    /\ total_memory = 1024
    /\ (pre = Scenario0 /\ FirstFitOf(StrP1, 300)) =>
          (AllocSucceeded /\ memory = Scenario1)
    /\ (pre = Scenario1 /\ FirstFitOf(StrP2, 200)) =>
          (AllocSucceeded /\ memory = Scenario2)
    /\ (pre = Scenario2 /\ DeallocateOf(StrP1)) =>
          (DeallocSucceeded /\ memory = Scenario3)
    /\ (pre = Scenario3 /\ DeallocateOf(StrP2)) =>
          (DeallocSucceeded /\ memory = Scenario0)

\* C15 witness: the last step of the scenario has run, from the list the
\* third step leaves.
C15_Witness ==
    /\ pre = Scenario3
    /\ DeallocateOf(StrP2)
    /\ memory = Scenario0

\* The earlier steps of the scenario, each from the list its predecessor left.
C15_Step1 == pre = Scenario0 /\ FirstFitOf(StrP1, 300) /\ memory = Scenario1
C15_Step2 == pre = Scenario1 /\ FirstFitOf(StrP2, 200) /\ memory = Scenario2
C15_Step3 == pre = Scenario2 /\ DeallocateOf(StrP1) /\ memory = Scenario3

=============================================================================
